---- MODULE Spec2Model ----
(***************************************************************************)
(* The contact form of bwoodson72/react_hook_form: the Form component      *)
(* (zod schema + react-hook-form's useForm/register/handleSubmit/watch)    *)
(* as a state machine whose steps are the browser's event-loop tasks: an   *)
(* input's change event, the form's submit event and the firing of the     *)
(* 1500 ms timer set by onSubmit.  A string is a sequence of one-character *)
(* strings; a field value the form holds as `undefined` is ABSENT.         *)
(***************************************************************************)
EXTENDS Integers, Sequences, FiniteSets, TLC

\* ------------------------------------------------------------------ bounds
\* Submit attempts (rejected or accepted) the model follows.
MaxSubmits == 2

\* --------------------------------------------------------- schema constants
MinNameLen == 2
MinMessageLen == 10

\* JavaScript's undefined, as a value no string equals.
ABSENT == <<"undefined">>

\* No message: the field satisfies its rule.
NoIssue == ""

FieldNames == {"firstName", "lastName", "company", "website", "email", "message"}

RequiredFields == {"firstName", "lastName", "email", "message"}

\* n copies of the character c
Rep(c, n) == [i \in 1..n |-> c]

\* ------------------------------------------------------------ string helpers
RECURSIVE TrimStart(_)
TrimStart(s) == IF s # <<>> /\ Head(s) = " " THEN TrimStart(Tail(s)) ELSE s

RECURSIVE TrimEnd(_)
TrimEnd(s) ==
    IF s # <<>> /\ s[Len(s)] = " " THEN TrimEnd(SubSeq(s, 1, Len(s) - 1)) ELSE s

\* String.prototype.trim
Trim(s) == TrimEnd(TrimStart(s))

\* setValueAs of the company and website inputs:
\* (v) => (typeof v === "string" && v.trim() === "" ? undefined : v)
setValueAs(v) == IF Trim(v) = <<>> THEN ABSENT ELSE v

\* The value register() stores for an input whose DOM value is v.
FieldValue(f, v) == IF f \in {"company", "website"} THEN setValueAs(v) ELSE v

\* ------------------------------------------------------------------- schema
IsAlnum(c) == c = "a"

\* z.string().min(n): a string of at least n UTF-16 units (no trimming).
MinLength_off_by_one(v, n) == v # ABSENT /\ Len(v) > n
MinLength(v, n) == v # ABSENT /\ Len(v) >= n

\* z.email(): local@label(.label)+ with a top-level label of two or more
\* letters, no leading, trailing or doubled dot in the local part.
IsEmail(v) ==
    /\ v # ABSENT
    /\ \E k \in 2..Len(v) :
         /\ v[k] = "@"
         /\ \A i \in 1..Len(v) : i # k => (IsAlnum(v[i]) \/ v[i] = ".")
         /\ v[1] # "." /\ v[k - 1] # "."
         /\ \A i \in 1..(Len(v) - 1) : ~(v[i] = "." /\ v[i + 1] = ".")
         /\ k + 1 <= Len(v) /\ IsAlnum(v[k + 1])
         /\ \E d \in (k + 2)..(Len(v) - 2) :
              /\ v[d] = "."
              /\ \A i \in (d + 1)..Len(v) : IsAlnum(v[i])

\* z.url(): new URL(v) parses without a base, which takes a scheme (a letter,
\* then letters) followed by ":"; surrounding whitespace is stripped first.
IsUrl(v) ==
    LET t == Trim(v) IN
    \E k \in 2..Len(t) :
        /\ t[k] = ":"
        /\ \A i \in 1..(k - 1) : IsAlnum(t[i])

\* The message of the one issue the schema raises for field f with value v,
\* or NoIssue when v satisfies f's rule.
Issue(f, v) ==
    CASE f = "firstName" ->
           IF MinLength(v, MinNameLen) THEN NoIssue
           ELSE "First name must be at least 2 characters."
      [] f = "lastName" ->
           IF MinLength(v, MinNameLen) THEN NoIssue
           ELSE "Last name must be at least 2 characters."
      [] f = "company" -> NoIssue
      [] f = "website" ->
           IF v = ABSENT \/ IsUrl(v) THEN NoIssue ELSE "Invalid URL"
      [] f = "email" ->
           IF IsEmail(v) THEN NoIssue ELSE "Please enter a valid email address."
      [] f = "message" ->
           IF MinLength(v, MinMessageLen) THEN NoIssue
           ELSE "Message must be at least 10 characters."

\* The fields the resolver checks: zodResolver(schema) parses the whole value
\* record the form holds, whichever inputs are rendered.
ResolverFields_no_website(vals) == FieldNames \ {"website"}
ResolverFields(vals) == FieldNames

\* zodResolver(schema) on the form's values: field -> message, for the
\* fields with an issue.
RunSchema_none(vals) == [f \in {} |-> NoIssue]
RunSchema(vals) ==
    LET bad == {f \in ResolverFields(vals) : Issue(f, vals[f]) # NoIssue}
    IN [f \in bad |-> Issue(f, vals[f])]

\* The parsed data handed to onSubmit, as JSON.stringify shows it: a key
\* whose value is undefined is omitted.
Stringify_keep_empty(data) ==
    [f \in FieldNames |-> IF data[f] = ABSENT THEN <<>> ELSE data[f]]
Stringify(data) == [f \in {g \in FieldNames : data[g] # ABSENT} |-> data[f]]

\* ----------------------------------------------------------------- inputs
\* DOM values a change event can carry, per input.
Typed(f) ==
    CASE f \in {"firstName", "lastName"} ->
           {<<>>, Rep("a", MinNameLen - 1), Rep("a", MinNameLen)}
      [] f = "message" ->
           {<<>>, Rep("a", MinMessageLen - 1), Rep("a", MinMessageLen)}
      [] f = "email" ->
           {<<>>, <<"a", "@", "a">>, <<"a", "@", "a", ".", "a", "a">>}
      [] f = "company" -> {<<>>, <<" ">>, <<"a">>}
      [] f = "website" -> {<<>>, <<" ">>, <<"a">>, <<"a", ":", "a">>}

\* ------------------------------------------------------------------- state
VARIABLES
    dom,           \* the text in each input element; ABSENT for an input not on the page
    values,        \* the form's value record (_formValues): field -> string or ABSENT
    errors,        \* formState.errors: field -> message
    isSubmitting,  \* formState.isSubmitting
    isSubmitted,   \* formState.isSubmitted
    submitCount,   \* formState.submitCount
    timers,        \* pending setTimeout callbacks of onSubmit, each holding its data
    calls,         \* number of onSubmit invocations so far
    alerts         \* the window.alert calls so far, in order

vars ==
    <<dom, values, errors, isSubmitting, isSubmitted, submitCount, timers, calls, alerts>>

\* The state of ProfessionalContactDemo, the second form of the repository.
VARIABLES
    isSuccess,        \* useState(false): the success view is shown instead of the form
    demoValues,       \* the demo form's value record: field -> string
    demoErrors,       \* its formState.errors: field -> message
    demoSubmitting,   \* its formState.isSubmitting
    demoSubmitted,    \* its formState.isSubmitted
    demoSubmitCount,  \* its formState.submitCount
    demoTimers,       \* pending setTimeout callbacks of its onSubmit, each holding its data
    demoCalls,        \* number of invocations of its onSubmit so far
    logs              \* the console.table calls so far, in order

demoVars ==
    <<isSuccess, demoValues, demoErrors, demoSubmitting, demoSubmitted,
      demoSubmitCount, demoTimers, demoCalls, logs>>

\* The fields of the demo's schema.
DemoFields == {"firstName", "lastName", "email", "message"}

\* Every field of the demo form empty.
DemoEmpty == [f \in DemoFields |-> <<>>]

\* ProfessionalContactDemo after its first render.
DemoInit ==
    /\ isSuccess = FALSE
    /\ demoValues = DemoEmpty
    /\ demoErrors = [f \in {} |-> NoIssue]
    /\ demoSubmitting = FALSE
    /\ demoSubmitted = FALSE
    /\ demoSubmitCount = 0
    /\ demoTimers = <<>>
    /\ demoCalls = 0
    /\ logs = <<>>

NoErrors == [f \in {} |-> NoIssue]

\* watch("company")
companyValue == values["company"]

\* {companyValue && (<>...website input...</>)}: a non-empty string is truthy.
Truthy(v) == v # ABSENT /\ v # <<>>

\* The website input is on the page when the form holds the values vals.
WebsiteShown(vals) == Truthy(vals["company"])

WebsiteRendered == WebsiteShown(values)

\* <button disabled={isSubmitting}>
SubmitDisabled_never == FALSE
SubmitDisabled == isSubmitting

\* The inputs on the page.
Rendered == IF WebsiteRendered THEN FieldNames ELSE FieldNames \ {"website"}

Init ==
    /\ dom = [f \in FieldNames |-> IF f = "website" THEN ABSENT ELSE <<>>]
    /\ values = [f \in FieldNames |-> FieldValue(f, <<>>)]
    /\ errors = NoErrors
    /\ isSubmitting = FALSE
    /\ isSubmitted = FALSE
    /\ submitCount = 0
    /\ timers = <<>>
    /\ calls = 0
    /\ alerts = <<>>
    /\ DemoInit

\* errs with field f's entry replaced by f's issue for value v.
WithIssue(errs, f, v) ==
    LET keep == {g \in DOMAIN errs : g # f}
        dm == IF Issue(f, v) = NoIssue THEN keep ELSE keep \cup {f}
    IN [g \in dm |-> IF g = f THEN Issue(f, v) ELSE errs[g]]

\* The input elements after the form's values became vals: the website input
\* is mounted with the value the form holds for it (empty when none) and
\* leaves the page when company is cleared; the other inputs keep their text.
Remount(d, vals) ==
    [d EXCEPT !["website"] =
        IF ~WebsiteShown(vals) THEN ABSENT
        ELSE IF d["website"] # ABSENT THEN d["website"]
        ELSE IF vals["website"] = ABSENT THEN <<>>
        ELSE vals["website"]]

\* A change event on the rendered input f, whose text became v:
\* register()'s onChange stores the value and, once the form has been
\* submitted (reValidateMode onChange), refreshes that field's error.
Change(f, v) ==
    /\ f \in Rendered
    /\ dom[f] # v
    /\ LET vals == [values EXCEPT ![f] = FieldValue(f, v)] IN
         /\ values' = vals
         /\ dom' = Remount([dom EXCEPT ![f] = v], vals)
    /\ errors' = IF isSubmitted THEN WithIssue(errors, f, FieldValue(f, v)) ELSE errors
    /\ UNCHANGED <<isSubmitting, isSubmitted, submitCount, timers, calls, alerts>>
    /\ UNCHANGED demoVars

\* handleSubmit calls onSubmit, and stays submitting until its promise
\* settles, exactly when the resolver returned no errors.
CallsOnValid_always(errs) == TRUE
CallsOnValid(errs) == errs = NoErrors

\* A submit event whose values fail the schema: handleSubmit publishes the
\* errors and ends the attempt without calling onSubmit.
SubmitInvalid ==
    /\ ~SubmitDisabled
    /\ submitCount + Len(timers) < MaxSubmits
    /\ ~CallsOnValid(RunSchema(values))
    /\ errors' = RunSchema(values)
    /\ isSubmitting' = FALSE
    /\ isSubmitted' = TRUE
    /\ submitCount' = submitCount + 1
    /\ UNCHANGED <<dom, values, timers, calls, alerts>>
    /\ UNCHANGED demoVars

\* A submit event whose values pass the schema: handleSubmit clears the
\* errors and calls onSubmit(data), which sets the 1500 ms timer and returns
\* a pending promise; isSubmitting stays true until it settles.
SubmitValid ==
    /\ ~SubmitDisabled
    /\ submitCount + Len(timers) < MaxSubmits
    /\ CallsOnValid(RunSchema(values))
    /\ errors' = NoErrors
    /\ isSubmitting' = TRUE
    /\ timers' = Append(timers, values)
    /\ calls' = calls + 1
    /\ UNCHANGED <<dom, values, isSubmitted, submitCount, alerts>>
    /\ UNCHANGED demoVars

\* The data the timer callback alerts: the `data` argument its closure
\* captured when onSubmit was called, not the form's values when it fires.
TimerData_live == values
TimerData == Head(timers)

\* The timer callback calls resolve() after the alert, which settles the
\* promise handleSubmit awaits.
Resolved_forgotten == FALSE
Resolved == TRUE

\* The timer fires: alert(JSON.stringify(data)), resolve(), and handleSubmit
\* resumes and publishes the end of the submission.
TimerFires ==
    /\ timers # <<>>
    /\ alerts' = Append(alerts, Stringify(TimerData))
    /\ timers' = Tail(timers)
    /\ isSubmitting' = ~Resolved
    /\ isSubmitted' = TRUE
    /\ submitCount' = submitCount + 1
    /\ UNCHANGED <<dom, values, errors, calls>>
    /\ UNCHANGED demoVars

Next ==
    \/ \E f \in FieldNames : \E v \in Typed(f) : Change(f, v)
    \/ SubmitInvalid
    \/ SubmitValid
    \/ TimerFires

Spec == Init /\ [][Next]_vars

\* The event loop runs a timer's callback once its delay has elapsed.
FairSpec == Spec /\ WF_vars(TimerFires)

TypeOK ==
    /\ DOMAIN dom = FieldNames
    /\ DOMAIN values = FieldNames
    /\ \A f \in FieldNames \ {"website"} : values[f] = FieldValue(f, dom[f])
    /\ dom["website"] # ABSENT => values["website"] = FieldValue("website", dom["website"])
    /\ dom["website"] # ABSENT <=> WebsiteRendered
    /\ DOMAIN errors \subseteq FieldNames
    /\ isSubmitting \in BOOLEAN
    /\ isSubmitted \in BOOLEAN
    /\ submitCount \in 0..MaxSubmits
    /\ calls \in 0..MaxSubmits

\* ------------------------------------------------- ProfessionalContactDemo
\* The message of the issue the demo's schema raises for field f with value
\* v, or NoIssue.
DemoIssue(f, v) ==
    CASE f \in {"firstName", "lastName"} ->
           IF MinLength(v, MinNameLen) THEN NoIssue ELSE "Name required."
      [] f = "email" ->
           IF IsEmail(v) THEN NoIssue ELSE "Invalid email address."
      [] f = "message" ->
           IF MinLength(v, MinMessageLen) THEN NoIssue
           ELSE "Please provide more details."

\* zodResolver(schema) of the demo on its values.
DemoRunSchema(vals) ==
    LET bad == {f \in DemoFields : DemoIssue(f, vals[f]) # NoIssue}
    IN [f \in bad |-> DemoIssue(f, vals[f])]

\* {!isSuccess ? (<form ...>) : (success view)}
FormShown_always == TRUE
FormShown == ~isSuccess

\* <button disabled={isSubmitting}>
DemoSubmitDisabled == demoSubmitting

\* reset(): with no default values, every field is empty again.
DemoReset_kept(vals) == vals
DemoReset(vals) == DemoEmpty

\* A change event on input f of the demo form, whose text became v.
DemoChange(f, v) ==
    /\ FormShown
    /\ demoValues[f] # v
    /\ demoValues' = [demoValues EXCEPT ![f] = v]
    /\ demoErrors' =
         IF ~demoSubmitted THEN demoErrors
         ELSE LET keep == {g \in DOMAIN demoErrors : g # f}
                  dm == IF DemoIssue(f, v) = NoIssue THEN keep ELSE keep \cup {f}
              IN [g \in dm |-> IF g = f THEN DemoIssue(f, v) ELSE demoErrors[g]]
    /\ UNCHANGED <<isSuccess, demoSubmitting, demoSubmitted, demoSubmitCount,
                   demoTimers, demoCalls, logs>>
    /\ UNCHANGED vars

\* A submit event on the demo form whose values fail the schema.
DemoSubmitInvalid ==
    /\ FormShown
    /\ ~DemoSubmitDisabled
    /\ demoSubmitCount < MaxSubmits
    /\ DemoRunSchema(demoValues) # NoErrors
    /\ demoErrors' = DemoRunSchema(demoValues)
    /\ demoSubmitting' = FALSE
    /\ demoSubmitted' = TRUE
    /\ demoSubmitCount' = demoSubmitCount + 1
    /\ UNCHANGED <<isSuccess, demoValues, demoTimers, demoCalls, logs>>
    /\ UNCHANGED vars

\* A submit event on the demo form whose values pass the schema:
\* handleSubmit calls onSubmit(data), which awaits the 1500 ms timer.
DemoSubmitValid ==
    /\ FormShown
    /\ ~DemoSubmitDisabled
    /\ Len(logs) + Len(demoTimers) < MaxSubmits
    /\ DemoRunSchema(demoValues) = NoErrors
    /\ demoErrors' = NoErrors
    /\ demoSubmitting' = TRUE
    /\ demoTimers' = Append(demoTimers, demoValues)
    /\ demoCalls' = demoCalls + 1
    /\ UNCHANGED <<isSuccess, demoValues, demoSubmitted, demoSubmitCount, logs>>
    /\ UNCHANGED vars

\* The demo's timer fires and onSubmit resumes: console.table(data),
\* setIsSuccess(true), reset() (values, errors and the submit counters back
\* to their initial state); then handleSubmit publishes the end of the
\* submission on top of the reset state.
DemoTimerFires ==
    /\ demoTimers # <<>>
    /\ logs' = Append(logs, Head(demoTimers))
    /\ demoTimers' = Tail(demoTimers)
    /\ isSuccess' = TRUE
    /\ demoValues' = DemoReset(demoValues)
    /\ demoErrors' = NoErrors
    /\ demoSubmitting' = FALSE
    /\ demoSubmitted' = TRUE
    /\ demoSubmitCount' = 1
    /\ UNCHANGED demoCalls
    /\ UNCHANGED vars

\* A click on "Restart Demo": setIsSuccess(false); the form is mounted again
\* with fresh, empty inputs.
RestartDemo ==
    /\ isSuccess
    /\ isSuccess' = FALSE
    /\ UNCHANGED <<demoValues, demoErrors, demoSubmitting, demoSubmitted,
                   demoSubmitCount, demoTimers, demoCalls, logs>>
    /\ UNCHANGED vars

DemoNext ==
    \/ \E f \in DemoFields : \E v \in Typed(f) : DemoChange(f, v)
    \/ DemoSubmitInvalid
    \/ DemoSubmitValid
    \/ DemoTimerFires
    \/ RestartDemo

DemoSpec == Init /\ [][DemoNext]_demoVars

\* ------------------------------------------------- vocabulary of the claims
\* The form's values satisfy every rule of the schema.
RulesPass(vals) == \A f \in FieldNames : Issue(f, vals[f]) = NoIssue

\* The four required fields satisfy their rules.
RequiredPass(vals) == \A f \in RequiredFields : Issue(f, vals[f]) = NoIssue

\* This step handles a submit event in the idle state.
Triggered == ~isSubmitting /\ (submitCount' # submitCount \/ calls' # calls)

\* This step calls onSubmit.
Accepted == calls' = calls + 1

\* The data of the most recent onSubmit call, as JSON shows it.
Handed == Stringify(timers'[Len(timers')])

\* rec is data with the undefined values left out.
IsNormalized(rec, data) ==
    /\ DOMAIN rec = {f \in FieldNames : data[f] # ABSENT}
    /\ \A f \in DOMAIN rec : rec[f] = data[f]

\* The text of input f is empty or whitespace only.
Blank(f) == dom[f] # ABSENT /\ Trim(dom[f]) = <<>>

\* ------------------------------------------------------------------- claims
\* C1: while a submission is in flight no step calls onSubmit again, queues a
\* second timer or changes isSubmitting other than by the timer firing; at
\* most one onSubmit call is in flight at any time.
C1_NoReentrantSubmit ==
    /\ [](Len(timers) <= 1 /\ (isSubmitting <=> timers # <<>>))
    /\ [][isSubmitting =>
            /\ calls' = calls
            /\ timers' = timers \/ (timers # <<>> /\ timers' = Tail(timers))
            /\ isSubmitting' # isSubmitting => timers' # timers]_vars

\* A submission is in flight while the form holds edited values that a
\* submit event would otherwise accept.
C1_Witness ==
    /\ isSubmitting
    /\ timers # <<>>
    /\ RulesPass(values)
    /\ values # Head(timers)
    /\ submitCount + Len(timers) < MaxSubmits

\* C2: a submit event in the idle state whose values fail a rule leaves the
\* form idle and editable, calls onSubmit not at all, raises no alert and
\* publishes an error for every failing field.
C2_RejectedAttemptStaysIdle ==
    [][(Triggered /\ ~RulesPass(values)) =>
         /\ ~isSubmitting'
         /\ calls' = calls
         /\ timers' = timers
         /\ alerts' = alerts
         /\ values' = values /\ dom' = dom
         /\ errors' # NoErrors
         /\ DOMAIN errors' = {f \in FieldNames : Issue(f, values[f]) # NoIssue}]_vars

\* The state right after a first, rejected attempt.
C2_Witness ==
    /\ ~isSubmitting
    /\ isSubmitted
    /\ submitCount = 1
    /\ calls = 0
    /\ errors # NoErrors
    /\ ~RulesPass(values)

\* The website input is on the page exactly when the company text, trimmed,
\* is non-empty (the rendering half of C3).
WebsiteRenderedIffCompany == WebsiteRendered <=> Trim(dom["company"]) # <<>>

\* C3: the website field is active, that is rendered and subject to
\* validation, exactly when the company text, trimmed, is non-empty.
C3_WebsiteActiveIffCompany ==
    /\ [](WebsiteRendered <=> Trim(dom["company"]) # <<>>)
    /\ [][Triggered =>
            ("website" \in DOMAIN errors' => Trim(dom["company"]) # <<>>)]_vars

\* C4: once company is empty again, a website value entered earlier is
\* discarded: a later submit event does not validate it (the attempt is
\* accepted when the required fields pass) and it is not in the record
\* handed to onSubmit.
C4_StaleWebsiteDiscarded ==
    [][(Triggered /\ Blank("company") /\ RequiredPass(values)) =>
         (Accepted /\ "website" \notin DOMAIN Handed)]_vars

\* C5: in the record handed to onSubmit an optional field whose text is
\* blank has no key, and with company blank the record has neither a company
\* nor a website key.
C5_EmptyOptionalOmitted ==
    [][Accepted =>
         /\ \A f \in {"company", "website"} : Blank(f) => f \notin DOMAIN Handed
         /\ Blank("company") =>
              ("company" \notin DOMAIN Handed /\ "website" \notin DOMAIN Handed)]_vars

\* What holds of C5 in the code: a key is left out of the record exactly
\* when the form holds undefined for it, which a blank text is stored as.
HandedIsNormalized ==
    [][Accepted =>
         /\ IsNormalized(Handed, values)
         /\ \A f \in {"company", "website"} : Blank(f) => f \notin DOMAIN Handed]_vars

C7_WebsiteUrlChecked ==
    [][(Triggered /\ WebsiteRendered /\ values["website"] # ABSENT) =>
         IF IsUrl(values["website"])
         THEN RequiredPass(values) =>
                /\ Accepted
                /\ "website" \in DOMAIN Handed
                /\ Handed["website"] = values["website"]
         ELSE /\ calls' = calls
              /\ "website" \in DOMAIN errors'
              /\ errors'["website"] = "Invalid URL"
              /\ RequiredPass(values) => DOMAIN errors' = {"website"}]_vars

\* A rejected attempt whose only error is the website's.
C7_Witness ==
    /\ WebsiteRendered
    /\ submitCount >= 1
    /\ ~isSubmitting
    /\ DOMAIN errors = {"website"}
    /\ errors = RunSchema(values)
    /\ RequiredPass(values)

C9_LifecycleTransitions ==
    /\ ~isSubmitting
    /\ [][calls' # calls => (~isSubmitting /\ isSubmitting')]_vars
    /\ [][(~isSubmitting /\ isSubmitting') =>
            /\ Accepted
            /\ RulesPass(values)
            /\ timers' = <<values>>]_vars
    /\ [][alerts' # alerts => (isSubmitting /\ ~isSubmitting')]_vars
    /\ [][(isSubmitting /\ ~isSubmitting') => alerts' # alerts]_vars

\* A second submission is in flight after the first one succeeded.
C9_Witness == isSubmitting /\ Len(alerts) = 1 /\ calls = 2

\* C11: a submission that is in flight ends: the timer fires, which leaves
\* the submitting state for the idle one with the submit button enabled
\* again; the submitting state is left in no other way (nothing cancels it).
C11_SubmissionCompletes ==
    /\ isSubmitting ~> ~isSubmitting
    /\ [][(timers # <<>> /\ timers' # timers) =>
            (~isSubmitting' /\ ~SubmitDisabled' /\ alerts' # alerts)]_vars
    /\ [][(isSubmitting /\ ~isSubmitting') =>
            (timers' = Tail(timers) /\ Len(alerts') = Len(alerts) + 1)]_vars

\* A first submission has run to completion and the form is idle again with
\* values a new submit event would accept.
C11_Witness ==
    /\ ~isSubmitting
    /\ Len(alerts) = 1
    /\ calls = 1
    /\ timers = <<>>
    /\ RulesPass(values)
    /\ submitCount < MaxSubmits

\* C13: the record alerted when the timer fires is the one validated at the
\* accepted submit event: onSubmit is handed the values of that moment, edits
\* made while the submission is in flight leave the pending record as it is,
\* and the alert carries that record, whatever the form holds by then.
C13_AlertsSnapshot ==
    /\ [][Accepted => timers' = Append(timers, values)]_vars
    /\ [][(timers # <<>> /\ alerts' = alerts) =>
            SubSeq(timers', 1, Len(timers)) = timers]_vars
    /\ [][alerts' # alerts =>
            /\ timers # <<>>
            /\ Len(alerts') = Len(alerts) + 1
            /\ IsNormalized(alerts'[Len(alerts')], Head(timers))]_vars

\* The first submission has raised its alert although the form was edited to
\* values that fail a rule while it was in flight (before isSubmitted, so
\* with no error published for the edit).
C13_Witness ==
    /\ Len(alerts) = 1
    /\ submitCount = 1
    /\ ~isSubmitting
    /\ errors = NoErrors
    /\ ~RulesPass(values)
    /\ ~IsNormalized(alerts[1], values)

\* The demo form's values satisfy every rule of its schema.
DemoRulesPass(vals) == \A f \in DemoFields : DemoIssue(f, vals[f]) = NoIssue

\* This step handles a submit event on the idle demo form.
DemoTriggered ==
    ~demoSubmitting /\ (demoSubmitCount' # demoSubmitCount \/ demoCalls' # demoCalls)

\* C14: isSuccess becomes true only when a validated submission completes,
\* and every field is empty from then on, edits made during the delay
\* included; while isSuccess is true no step submits or edits the form;
\* Restart Demo sets isSuccess false with all fields still empty; a submit
\* event on the empty form is rejected with an error on every field and
\* without a call of onSubmit.
C14_SuccessViewAndRestart ==
    /\ [](isSuccess => (demoValues = DemoEmpty /\ ~demoSubmitting))
    /\ [][(~isSuccess /\ isSuccess') =>
            /\ demoSubmitting /\ demoTimers # <<>>
            /\ DemoRulesPass(Head(demoTimers))
            /\ logs' = Append(logs, Head(demoTimers))
            /\ demoValues' = DemoEmpty]_demoVars
    /\ [][isSuccess =>
            /\ demoCalls' = demoCalls
            /\ demoSubmitCount' = demoSubmitCount
            /\ demoTimers' = demoTimers
            /\ demoErrors' = demoErrors
            /\ demoValues' = demoValues]_demoVars
    /\ [][(isSuccess /\ ~isSuccess') =>
            (demoValues' = DemoEmpty /\ ~demoSubmitting')]_demoVars
    /\ [][(DemoTriggered /\ demoValues = DemoEmpty) =>
            /\ demoCalls' = demoCalls
            /\ ~demoSubmitting'
            /\ DOMAIN demoErrors' = DemoFields]_demoVars

\* After a success and Restart Demo, a submit event on the empty form was
\* rejected with the four errors.
C14_Witness ==
    /\ ~isSuccess
    /\ Len(logs) = 1
    /\ demoCalls = 1
    /\ demoValues = DemoEmpty
    /\ demoSubmitCount = 2
    /\ DOMAIN demoErrors = DemoFields

\* The success view is on the page after a submission during which the form
\* was edited: the logged record differs from the (reset) values.
C14_SuccessWitness ==
    /\ isSuccess
    /\ Len(logs) = 1
    /\ logs[1] # demoValues
====
